---- MODULE Spec2Model ----
(***************************************************************************)
(* fastapi-logging-manager: the LoggerManager registry (logger_manager.py) *)
(* and the live log viewer (log_view_router.py): log_reader, the           *)
(* logger-name resolution, the name-listing endpoint and the websocket     *)
(* session handler.                                                        *)
(*                                                                         *)
(* Text is modelled as sequences of one-character strings, so that the     *)
(* substring tests, readlines() and "".join() are computed, not assumed.   *)
(* The three markup pieces that log_reader puts around a line are single   *)
(* elements of such a sequence.                                            *)
(***************************************************************************)
EXTENDS Integers, Sequences, FiniteSets, TLC

\* ------------------------------------------------------------------ bounds
\* Largest number of lines a file of the model holds.
MaxLines == 3
\* Largest window size n handed to a direct call of log_reader.
MaxN == 3
\* Largest number of lines a file holds while websocket sessions run.
MaxSessLines == 2
\* Largest number of handlers code outside the manager leaves on one logger.
MaxHandlers == 2
\* Largest number of lines the file holds under fair scheduling.
MaxLiveLines == 1

\* ---------------------------------------------------------- text and lines
NL == "\n"
ERROR == <<"E", "R", "R", "O", "R">>
WARNING == <<"W", "A", "R", "N", "I", "N", "G">>

\* The log lines of the model (without their line terminator): a plain line,
\* an ERROR line, a WARNING line, a line with both tokens (WARNING first), a
\* lower-case "error" and a line that holds only prefixes of the two tokens.
LineOk == <<"o", "k">>
LineError == <<"E", "R", "R", "O", "R", " ", "x">>
LineWarning == <<"a", " ", "W", "A", "R", "N", "I", "N", "G">>
LineBoth == <<"W", "A", "R", "N", "I", "N", "G", " ", "E", "R", "R", "O", "R">>
LineLower == <<"e", "r", "r", "o", "r">>
LinePrefix == <<"E", "R", "R", "O", " ", "W", "A", "R", "N">>
LineSet == {LineOk, LineError, LineWarning, LineBoth, LineLower, LinePrefix}

\* Python's `sub in line` on str.
Contains(sub, line) ==
    \E i \in 1..(Len(line) - Len(sub) + 1) : SubSeq(line, i, i + Len(sub) - 1) = sub

\* All sequences over S of length at most k.
SeqUpTo(S, k) == UNION {[1..m -> S] : m \in 0..k}

\* "".join(parts)
RECURSIVE join(_)
join(parts) == IF parts = <<>> THEN <<>> ELSE Head(parts) \o join(Tail(parts))

\* What a file sink writes for a sequence of records: each followed by "\n".
RECURSIVE TextOf(_)
TextOf(lines) ==
    IF lines = <<>> THEN <<>> ELSE Head(lines) \o <<NL>> \o TextOf(Tail(lines))

\* file.readlines(): the text cut after every "\n"; a last piece without a
\* terminator is a line of its own.
RECURSIVE readlines(_)
readlines(text) ==
    IF text = <<>> THEN <<>>
    ELSE LET ends == {i \in 1..Len(text) : text[i] = NL}
         IN  IF ends = {} THEN <<text>>
             ELSE LET k == CHOOSE i \in ends : \A j \in ends : i <= j
                  IN  <<SubSeq(text, 1, k)>> \o readlines(SubSeq(text, k + 1, Len(text)))

\* Python's seq[start:] for any integer start.
PySliceFrom(seq, start) ==
    LET from == IF start < 0
                THEN (IF Len(seq) + start < 0 THEN 0 ELSE Len(seq) + start)
                ELSE (IF start > Len(seq) THEN Len(seq) ELSE start)
    IN  SubSeq(seq, from + 1, Len(seq))

\* ------------------------------------------------------------- log_reader
SpanRed == <<"<span class=\"text-red-400\">">>
SpanOrange == <<"<span class=\"text-orange-300\">">>
SpanEnd == <<"</span>">>
Br == <<"<br/>">>

\* A mutation of RenderLine: the WARNING test comes first.
RenderLineWarningFirst(line) ==
    IF Contains(WARNING, line) THEN SpanOrange \o line \o SpanEnd \o Br
    ELSE IF Contains(ERROR, line) THEN SpanRed \o line \o SpanEnd \o Br
    ELSE line \o Br

\* The body of log_reader's loop: the entry appended for one line.
RenderLine(line) ==
    IF Contains(ERROR, line) THEN SpanRed \o line \o SpanEnd \o Br
    ELSE IF Contains(WARNING, line) THEN SpanOrange \o line \o SpanEnd \o Br
    ELSE line \o Br

\* A mutation of Window: the start is computed as len - n and not clamped.
WindowUnclamped(lines, n) == PySliceFrom(lines, Len(lines) - n)

\* file.readlines()[-n:]
Window(lines, n) == PySliceFrom(lines, 0 - n)

\* The list log_reader builds from the text of an opened file.
RenderAll(text, n) ==
    LET win == Window(readlines(text), n)
    IN  [i \in 1..Len(win) |-> RenderLine(win[i])]

\* ------------------------------------------------------------ the state
VARIABLES
    fs,                      \* the file system: path -> [kind, text]
    written,                 \* path -> the records written to the file so far
    rd,                      \* a direct call of log_reader, and what it gave
    default_to_console,      \* LoggerManager.default_to_console
    default_to_file,         \* LoggerManager.default_to_file
    _loggers,                \* LoggerManager._loggers (its keys)
    handlers,                \* logging's logger objects: name -> handler list
    levels,                  \* logging's logger objects: name -> level
    _loggers_with_logfiles,  \* the attribute the router reads; Undefined if unset
    call,                    \* the last call of _resolve_logfile_for_logger or of
                             \* GET <prefix>/logs/logger_names, and its outcome
    ws                       \* the websocket sessions

vars == <<fs, written, rd, default_to_console, default_to_file, _loggers,
          handlers, levels, _loggers_with_logfiles, call, ws>>

fsVars == <<fs, written>>
registryVars == <<default_to_console, default_to_file, _loggers, handlers,
                  levels, _loggers_with_logfiles>>

\* --------------------------------------------------------- the file system
log_directory == "logs"
LoggerNames == {"app", "db"}
\* os.path.join(self.log_directory, file_name)
PathOf(file_name) == <<log_directory, file_name>>
Paths == {PathOf("app.log"), PathOf("db.log")}
Kinds == {"missing", "file", "dir", "unreadable"}

NoFile == [kind |-> "missing", text |-> <<>>]

\* os.path.exists(path)
exists(fsys, path) == fsys[path].kind # "missing"

\* open(path, "r"): the exception it raises, or "none".
OpenRaises(fsys, path) ==
    CASE fsys[path].kind = "file" -> "none"
      [] fsys[path].kind = "missing" -> "FileNotFoundError"
      [] fsys[path].kind = "dir" -> "IsADirectoryError"
      [] fsys[path].kind = "unreadable" -> "PermissionError"

\* A file sink writes one record (logging.FileHandler.emit).
Emit(path, line, bound) ==
    /\ fs[path].kind = "file"
    /\ Len(written[path]) < bound
    /\ fs' = [fs EXCEPT ![path].text = @ \o line \o <<NL>>]
    /\ written' = [written EXCEPT ![path] = Append(@, line)]

\* The file is removed by another process.
Unlink(path) ==
    /\ fs[path].kind \in {"file", "unreadable"}
    /\ fs' = [fs EXCEPT ![path] = NoFile]
    /\ written' = [written EXCEPT ![path] = <<>>]

\* A directory is created where the file is expected.
Mkdir(path) ==
    /\ fs[path].kind = "missing"
    /\ fs' = [fs EXCEPT ![path].kind = "dir"]
    /\ UNCHANGED written

\* The read permission of the file is taken away or given back.
Chmod(path) ==
    /\ fs[path].kind \in {"file", "unreadable"}
    /\ fs' = [fs EXCEPT ![path].kind = IF @ = "file" THEN "unreadable" ELSE "file"]
    /\ UNCHANGED written

\* ------------------------------------------------- log_reader, called alone
\* exists: what os.path.exists gave; raised: the exception that left the call.
RdIdle == [pc |-> "idle", log_file |-> PathOf("app.log"), n |-> 0,
           exists |-> FALSE, raised |-> "none", value |-> <<>>]

\* A mutation of LogReaderEnter: the existence test is left out.
LogReaderEnterNoTest(path, n) ==
    /\ rd.pc = "idle"
    /\ rd' = [RdIdle EXCEPT !.pc = "opening", !.log_file = path, !.n = n,
                            !.exists = exists(fs, path)]
    /\ UNCHANGED <<fsVars, registryVars, call, ws>>

\* log_reader(path, n) up to the existence test: an empty list is returned at
\* once if the path does not exist, else the file is about to be opened.
LogReaderEnter(path, n) ==
    /\ rd.pc = "idle"
    /\ rd' = IF exists(fs, path)
             THEN [RdIdle EXCEPT !.pc = "opening", !.log_file = path, !.n = n,
                                 !.exists = TRUE]
             ELSE [RdIdle EXCEPT !.pc = "returned", !.log_file = path, !.n = n]
    /\ UNCHANGED <<fsVars, registryVars, call, ws>>

\* log_reader from open() on: the open fails and the exception leaves
\* log_reader, or the lines are read and rendered.
LogReaderOpen ==
    /\ rd.pc = "opening"
    /\ rd' = IF OpenRaises(fs, rd.log_file) # "none"
             THEN [rd EXCEPT !.pc = "raised", !.raised = OpenRaises(fs, rd.log_file)]
             ELSE [rd EXCEPT !.pc = "returned",
                             !.value = RenderAll(fs[rd.log_file].text, rd.n)]
    /\ UNCHANGED <<fsVars, registryVars, call, ws>>

\* Another process changes the file between log_reader's existence test and
\* its open().  (Every content the file has before the call is an initial
\* state of SpecReader.)
ReaderFsStep ==
    /\ rd.pc = "opening"
    /\ \E p \in {PathOf("app.log")} :
          \/ Unlink(p)
          \/ Mkdir(p)
          \/ Chmod(p)
    /\ UNCHANGED <<rd, registryVars, call, ws>>

\* ------------------------------------------------------ optional values
\* Python's None, and a present value.
None == <<>>
Some(x) == <<x>>

\* ------------------------------------------------- LoggerManager.get_logger
ConsoleHandler == [kind |-> "console", baseFilename |-> None]
FileHandler(path) == [kind |-> "file", baseFilename |-> path]

\* f"{name.split('.')[-1]}.log" for the logger names of the model.
DefaultFileName(name) ==
    CASE name = "app" -> "app.log"
      [] name = "db" -> "db.log"
      [] name = "task" -> "task.log"

\* logging.FileHandler(file_path) opens the file for appending: it raises on
\* a directory and creates a missing file.
FileHandlerRaises(fsys, path) == fsys[path].kind = "dir"
FileHandlerOpens(fsys, path) ==
    IF fsys[path].kind = "missing" THEN [fsys EXCEPT ![path].kind = "file"] ELSE fsys

HasFileHandler(hs) == \E i \in 1..Len(hs) : hs[i].baseFilename # None

\* The level argument of get_logger: None, an int or a str.
LevelNone == [type |-> "NoneType", int |-> 0, str |-> ""]
LevelInt(i) == [type |-> "int", int |-> i, str |-> ""]
LevelStr(str) == [type |-> "str", int |-> 0, str |-> str]

\* str.upper() for the level names of the model.
upper(str) ==
    CASE str = "warning" -> "WARNING"
      [] str = "verbose" -> "VERBOSE"
      [] OTHER -> str

\* getattr(logging, attr, default) for level names.
getattr_logging(attr, default) ==
    CASE attr = "DEBUG" -> 10
      [] attr = "INFO" -> 20
      [] attr = "WARNING" -> 30
      [] OTHER -> default

\* self.default_level with FASTAPI_LOGGER_LEVEL unset.
default_level == getattr_logging(upper("INFO"), getattr_logging("INFO", 0))

\* The level get_logger sets on a logger it configures.
log_level(level) ==
    IF level.type = "NoneType" THEN default_level
    ELSE IF level.type = "str" THEN getattr_logging(upper(level.str), default_level)
    ELSE level.int

\* A mutation of get_logger: a registered logger is configured again with the
\* level and the sinks of the present call.
get_logger_reconfigures(name, level, to_console, to_file, file_name) ==
    LET tc == IF to_console = None THEN default_to_console ELSE to_console[1]
        tf == IF to_file = None THEN default_to_file ELSE to_file[1]
        fname == IF file_name = None THEN DefaultFileName(name) ELSE file_name[1]
        path == PathOf(fname)
        withConsole == IF tc THEN <<ConsoleHandler>> ELSE <<>>
    IN  /\ levels' = [levels EXCEPT ![name] = log_level(level)]
        /\ _loggers' = _loggers \cup {name}
        /\ IF tf /\ ~FileHandlerRaises(fs, path)
           THEN /\ handlers' = [handlers EXCEPT
                                  ![name] = withConsole \o <<FileHandler(path)>>]
                /\ fs' = FileHandlerOpens(fs, path)
           ELSE /\ handlers' = [handlers EXCEPT ![name] = withConsole]
                /\ UNCHANGED fs
        /\ UNCHANGED <<written, rd, default_to_console, default_to_file,
                       _loggers_with_logfiles, ws>>

\* get_logger(name, level=, to_console=, to_file=, file_name=); the last three
\* arguments are None or Some(value).  The call returns exactly when the name
\* is registered afterwards; the record of the call is the caller's.
get_logger(name, level, to_console, to_file, file_name) ==
    LET tc == IF to_console = None THEN default_to_console ELSE to_console[1]
        tf == IF to_file = None THEN default_to_file ELSE to_file[1]
        fname == IF file_name = None THEN DefaultFileName(name) ELSE file_name[1]
        path == PathOf(fname)
        withConsole == IF tc THEN <<ConsoleHandler>> ELSE <<>>
    IN  IF name \in _loggers
        THEN \* already registered: returned as it is
             UNCHANGED <<fs, written, rd, default_to_console, default_to_file,
                         _loggers, handlers, levels, _loggers_with_logfiles, ws>>
        ELSE
        /\ levels' = [levels EXCEPT ![name] = log_level(level)]
        /\ IF handlers[name] # <<>>
           THEN /\ _loggers' = _loggers \cup {name}
                /\ UNCHANGED <<handlers, fs>>
           ELSE IF ~tf
           THEN /\ handlers' = [handlers EXCEPT ![name] = withConsole]
                /\ _loggers' = _loggers \cup {name}
                /\ UNCHANGED fs
           ELSE IF FileHandlerRaises(fs, path)
           THEN \* the exception leaves get_logger after the console handler
                \* was attached and before the logger is registered
                /\ handlers' = [handlers EXCEPT ![name] = withConsole]
                /\ UNCHANGED <<_loggers, fs>>
           ELSE /\ handlers' = [handlers EXCEPT
                                  ![name] = withConsole \o <<FileHandler(path)>>]
                /\ fs' = FileHandlerOpens(fs, path)
                /\ _loggers' = _loggers \cup {name}
        /\ UNCHANGED <<written, rd, default_to_console, default_to_file,
                       _loggers_with_logfiles, ws>>

get_app_logger ==
    get_logger("app", LevelNone, Some(TRUE), Some(TRUE), Some("app.log"))

\* f"task_{name}.log" for the task names of the model.
TaskFileName(name) ==
    CASE name = "a" -> "task_a.log"
      [] name = "b" -> "task_b.log"

get_task_logger(name, to_file) ==
    get_logger("task", LevelNone, Some(TRUE), Some(to_file),
               Some(TaskFileName(name)))

\* Code outside the manager attaches a handler to logging's logger of that
\* name (logging.getLogger(name) is process-wide, and get_logger leaves the
\* handlers it finds there).
AddHandlerOutside(name, h) ==
    /\ Len(handlers[name]) < MaxHandlers
    /\ h.kind = "file" => ~FileHandlerRaises(fs, h.baseFilename)
    /\ handlers' = [handlers EXCEPT ![name] = Append(@, h)]
    /\ fs' = IF h.kind = "file" THEN FileHandlerOpens(fs, h.baseFilename) ELSE fs
    /\ UNCHANGED <<written, rd, default_to_console, default_to_file, _loggers,
                   levels, _loggers_with_logfiles, call, ws>>

\* ------------------------------------- the registry attribute of the router
\* logger_manager._loggers_with_logfiles / .loggers_with_logfiles: a dict from
\* logger name to logger object.  LoggerManager defines neither name, so the
\* attribute is undefined until the application that embeds the router sets it.
Undefined == [defined |-> FALSE, keys |-> {}]
Defined(keys) == [defined |-> TRUE, keys |-> keys]

SetLoggersWithLogfiles(keys) ==
    /\ keys \subseteq _loggers
    /\ _loggers_with_logfiles # Defined(keys)
    /\ _loggers_with_logfiles' = Defined(keys)
    /\ UNCHANGED <<fsVars, rd, default_to_console, default_to_file, _loggers,
                   handlers, levels, call, ws>>

\* ------------------------------------------- _resolve_logfile_for_logger
Returned(v) == [raised |-> "none", value |-> v]
Raised(e) == [raised |-> e, value |-> None]

\* The loop over logger.handlers: the first baseFilename that is a non-empty
\* string, else None.
RECURSIVE FirstBaseFilename(_)
FirstBaseFilename(hs) ==
    IF hs = <<>> THEN None
    ELSE IF Head(hs).baseFilename # None THEN Head(hs).baseFilename
    ELSE FirstBaseFilename(Tail(hs))

\* A mutation of FirstBaseFilename: the last file handler wins.
RECURSIVE LastBaseFilename(_)
LastBaseFilename(hs) ==
    IF hs = <<>> THEN None
    ELSE IF hs[Len(hs)].baseFilename # None THEN hs[Len(hs)].baseFilename
    ELSE LastBaseFilename(SubSeq(hs, 1, Len(hs) - 1))

\* _resolve_logfile_for_logger(logger_name), logger_name None or Some(str),
\* evaluated against the attribute attr and the handler lists hs.
resolve_logfile_for_logger(attr, hs, logger_name) ==
    IF logger_name = None \/ logger_name = Some("") THEN Returned(None)
    ELSE IF ~attr.defined THEN Raised("AttributeError")
    ELSE IF logger_name[1] \notin attr.keys THEN Returned(None)
    ELSE Returned(FirstBaseFilename(hs[logger_name[1]]))

NoCall == [op |-> "none", logger_name |-> None, raised |-> "none", value |-> None]

\* A mutation of ResolveCall: the name is looked up with get_logger, which
\* configures and registers a logger that is not there yet.
ResolveCallRegisters(logger_name) ==
    LET res == resolve_logfile_for_logger(_loggers_with_logfiles, handlers,
                                          logger_name)
        fresh == IF logger_name # None /\ logger_name # Some("nonexistent")
                    /\ logger_name # Some("")
                 THEN {logger_name[1]} \ _loggers ELSE {}
    IN  /\ call' = [op |-> "resolve", logger_name |-> logger_name,
                    raised |-> res.raised, value |-> res.value]
        /\ _loggers' = _loggers \cup fresh
        /\ handlers' = [n \in DOMAIN handlers |->
                          IF n \in fresh /\ handlers[n] = <<>>
                          THEN <<ConsoleHandler>> ELSE handlers[n]]
        /\ UNCHANGED <<fsVars, rd, default_to_console, default_to_file, levels,
                       _loggers_with_logfiles, ws>>

\* A direct call, its outcome recorded.
ResolveCall(logger_name) ==
    LET res == resolve_logfile_for_logger(_loggers_with_logfiles, handlers,
                                          logger_name)
    IN  /\ call' = [op |-> "resolve", logger_name |-> logger_name,
                    raised |-> res.raised, value |-> res.value]
        /\ UNCHANGED <<fsVars, rd, registryVars, ws>>

\* ------------------------------------------ GET <prefix>/logs/logger_names
\* Python's order of the logger names of the model.
NameRank(name) ==
    CASE name = "app" -> 1
      [] name = "db" -> 2
      [] name = "task" -> 3

\* sorted(names)
RECURSIVE sorted(_)
sorted(names) ==
    IF names = {} THEN <<>>
    ELSE LET least == CHOOSE a \in names : \A b \in names : NameRank(a) <= NameRank(b)
         IN  <<least>> \o sorted(names \ {least})

\* The handler of the endpoint: sorted(logger_manager.loggers_with_logfiles);
\* an exception leaves the handler (the request fails).
get_logger_names ==
    /\ call' = IF ~_loggers_with_logfiles.defined
               THEN [op |-> "logger_names", logger_name |-> None,
                     raised |-> "AttributeError", value |-> None]
               ELSE [op |-> "logger_names", logger_name |-> None,
                     raised |-> "none",
                     value |-> sorted(_loggers_with_logfiles.keys)]
    /\ UNCHANGED <<fsVars, rd, registryVars, ws>>

\* ------------------------------------------------- websocket_endpoint_log
\* The sessions of the model.  A session shares no state with another one: it
\* reads the registry and the files, and writes its own record only.
Sessions == {"s1"}
\* The window of a session's log_reader call.
SessionWindow == 30
NoLogfileMessage == <<"No logfile configured for selected logger.">>
\* The ?logger= parameters of the model: none, empty, known and unknown names.
RequestedNames == {None, Some(""), Some("app"), Some("db"), Some("nonexistent")}
\* The lines written to the files while sessions run.
SessLineSet == {LineError}

SessionIdle == [pc |-> "idle", logger_name |-> None, logfile |-> None,
                viewer |-> "here", client_state |-> "CONNECTING",
                close_sent |-> FALSE, last |-> None, seq |-> 0, failed |-> FALSE,
                read |-> None,
                retried |-> FALSE, exit |-> "none", close |-> "none",
                escaped |-> "none"]

\* A mutation of Connect: the resolved path is kept in a variable of the
\* module, shared by the sessions that are open.
ConnectSharesLogfile(s, logger_name) ==
    LET first == resolve_logfile_for_logger(_loggers_with_logfiles, handlers,
                                            logger_name)
        second == resolve_logfile_for_logger(_loggers_with_logfiles, handlers,
                                             Some("app"))
        res == IF first.raised # "none" THEN first
               ELSE IF first.value # None THEN first
               ELSE second
        r == [ws[s] EXCEPT !.logger_name = logger_name, !.client_state = "CONNECTED"]
    IN  /\ ws[s].pc = "idle"
        /\ ws' = [t \in DOMAIN ws |->
                    IF t = s
                    THEN IF res.raised # "none"
                         THEN [r EXCEPT !.pc = "crashed", !.escaped = res.raised]
                         ELSE [r EXCEPT !.pc = "sleep", !.logfile = res.value]
                    ELSE IF res.raised = "none" /\ ws[t].pc \in {"sleep", "opening"}
                         THEN [ws[t] EXCEPT !.logfile = res.value]
                         ELSE ws[t]]
        /\ UNCHANGED <<fsVars, rd, registryVars, call>>

\* websocket.accept(), the query parameter and the two resolutions.  An
\* exception raised here is outside the try block and leaves the handler.
Connect(s, logger_name) ==
    LET first == resolve_logfile_for_logger(_loggers_with_logfiles, handlers,
                                            logger_name)
        second == resolve_logfile_for_logger(_loggers_with_logfiles, handlers,
                                             Some("app"))
        res == IF first.raised # "none" THEN first
               ELSE IF first.value # None THEN first
               ELSE second
        r == [ws[s] EXCEPT !.logger_name = logger_name, !.client_state = "CONNECTED"]
    IN  /\ ws[s].pc = "idle"
        /\ ws' = [ws EXCEPT ![s] =
                    IF res.raised # "none"
                    THEN [r EXCEPT !.pc = "crashed", !.escaped = res.raised]
                    ELSE [r EXCEPT !.pc = "sleep", !.logfile = res.value]]
        /\ UNCHANGED <<fsVars, rd, registryVars, call>>

\* A mutation of FinallyClose: the RuntimeError of close() is not caught.
FinallyCloseNoCatch(r) ==
    IF r.client_state # "DISCONNECTED"
    THEN IF r.close_sent
         THEN [r EXCEPT !.pc = "crashed", !.close = "raised", !.escaped = "RuntimeError"]
         ELSE [r EXCEPT !.pc = "done", !.close = "sent", !.close_sent = TRUE]
    ELSE [r EXCEPT !.pc = "done", !.close = "skipped"]

\* The finally block: close() unless the client state is DISCONNECTED; its
\* RuntimeError ("close message has been sent") is caught and dropped.
FinallyClose(r) ==
    IF r.client_state # "DISCONNECTED"
    THEN IF r.close_sent
         THEN [r EXCEPT !.pc = "done", !.close = "suppressed"]
         ELSE [r EXCEPT !.pc = "done", !.close = "sent", !.close_sent = TRUE]
    ELSE [r EXCEPT !.pc = "done", !.close = "skipped"]

\* A mutation of AfterPushFailure: the loop goes on after a failed send.
AfterPushFailureRetry(r, exc, marked) ==
    [r EXCEPT !.pc = "sleep", !.failed = TRUE, !.exit = exc,
              !.close_sent = @ \/ marked]

\* send_text raised exc: both except clauses lead to the finally block.
\* marked: the transport took the failure for the end of the connection.
AfterPushFailure(r, exc, marked) ==
    FinallyClose([r EXCEPT !.failed = TRUE, !.exit = exc,
                           !.close_sent = @ \/ marked])

\* A mutation of Push: a send to a departed viewer is dropped silently and the
\* loop goes on.
PushDropsSilently(s, msg, src) ==
    LET r == [ws[s] EXCEPT !.retried = @ \/ ws[s].failed]
    IN  ws' = [ws EXCEPT ![s] = [r EXCEPT !.pc = "sleep",
                                          !.last = IF r.viewer = "here"
                                                   THEN Some(msg) ELSE @,
                                          !.seq = IF r.viewer = "here"
                                                  THEN 1 - @ ELSE @,
                                          !.read = IF r.viewer = "here"
                                                   THEN src ELSE @]]

\* A mutation of Push: a message equal to the one sent last is not sent
\* again.
PushIfChanged(s, msg, src) ==
    LET r == [ws[s] EXCEPT !.retried = @ \/ ws[s].failed]
    IN  IF r.last = Some(msg)
        THEN ws' = [ws EXCEPT ![s] = [r EXCEPT !.pc = "sleep"]]
        ELSE IF r.viewer = "here"
        THEN ws' = [ws EXCEPT ![s] = [r EXCEPT !.pc = "sleep", !.last = Some(msg),
                                               !.seq = 1 - @, !.read = src]]
        ELSE \E exc \in {"WebSocketDisconnect", "RuntimeError"}, marked \in BOOLEAN :
                ws' = [ws EXCEPT ![s] = AfterPushFailure(r, exc, marked)]

\* await websocket.send_text(msg): delivered while the viewer is there, else
\* it raises WebSocketDisconnect or another exception.  last: the message
\* delivered last; seq: the parity of the number of messages delivered; read:
\* the file as log_reader found it for that message (src).
Push(s, msg, src) ==
    LET r == [ws[s] EXCEPT !.retried = @ \/ ws[s].failed]
    IN  IF r.viewer = "here"
        THEN ws' = [ws EXCEPT ![s] = [r EXCEPT !.pc = "sleep", !.last = Some(msg),
                                               !.seq = 1 - @, !.read = src]]
        ELSE \E exc \in {"WebSocketDisconnect", "RuntimeError"}, marked \in BOOLEAN :
                ws' = [ws EXCEPT ![s] = AfterPushFailure(r, exc, marked)]

\* One turn of the loop after asyncio.sleep(1), up to log_reader's existence
\* test.
Tick(s) ==
    /\ ws[s].pc = "sleep"
    /\ IF ws[s].logfile = None
       THEN Push(s, NoLogfileMessage, None)
       ELSE IF exists(fs, ws[s].logfile)
       THEN ws' = [ws EXCEPT ![s].pc = "opening"]
       ELSE Push(s, join(<<>>), Some(fs[ws[s].logfile]))
    /\ UNCHANGED <<fsVars, rd, registryVars, call>>

\* A mutation of TickOpen: the session keeps a cursor and sends the lines it
\* has not read yet.
TickOpenNewLinesOnly(s) ==
    LET lines == readlines(fs[ws[s].logfile].text)
        seen == IF ws[s].read = None THEN 0
                ELSE Len(readlines(ws[s].read[1].text))
        fresh == IF seen < Len(lines) THEN SubSeq(lines, seen + 1, Len(lines))
                 ELSE <<>>
    IN  /\ ws[s].pc = "opening"
        /\ IF OpenRaises(fs, ws[s].logfile) # "none"
           THEN ws' = [ws EXCEPT ![s] =
                         FinallyClose([@ EXCEPT !.exit = OpenRaises(fs, ws[s].logfile)])]
           ELSE Push(s, join([i \in 1..Len(fresh) |-> RenderLine(fresh[i])]),
                     Some(fs[ws[s].logfile]))
        /\ UNCHANGED <<fsVars, rd, registryVars, call>>

\* The rest of the turn: log_reader opens and reads the file and the joined
\* lines are sent; an exception of open() is printed and ends the loop.
TickOpen(s) ==
    /\ ws[s].pc = "opening"
    /\ IF OpenRaises(fs, ws[s].logfile) # "none"
       THEN ws' = [ws EXCEPT ![s] =
                     FinallyClose([@ EXCEPT !.exit = OpenRaises(fs, ws[s].logfile)])]
       ELSE Push(s, join(RenderAll(fs[ws[s].logfile].text, SessionWindow)),
                 Some(fs[ws[s].logfile]))
    /\ UNCHANGED <<fsVars, rd, registryVars, call>>

\* The viewer goes away (tab closed, network drop); the transport may or may
\* not have recorded it in client_state.
ViewerLeaves(s) ==
    /\ ws[s].pc \in {"sleep", "opening"}
    /\ ws[s].viewer = "here"
    /\ \E seen \in BOOLEAN :
          ws' = [ws EXCEPT ![s].viewer = "gone",
                           ![s].client_state = IF seen THEN "DISCONNECTED" ELSE @]
    /\ UNCHANGED <<fsVars, rd, registryVars, call>>

\* ------------------------------------------------------ the specifications
InitRegistry ==
    /\ _loggers = {}
    /\ handlers = [n \in LoggerNames |-> <<>>]
    /\ levels = [n \in LoggerNames |-> 0]
    /\ _loggers_with_logfiles = Undefined
    /\ call = NoCall

\* Sessions over the registry and the log files.
Init ==
    /\ fs = [p \in Paths |-> NoFile]
    /\ written = [p \in Paths |-> <<>>]
    /\ rd = RdIdle
    /\ default_to_console = TRUE
    /\ default_to_file = FALSE
    /\ InitRegistry
    /\ ws = [s \in Sessions |-> SessionIdle]

FsStep ==
    /\ \E p \in Paths :
          \/ \E l \in SessLineSet : Emit(p, l, MaxSessLines)
          \/ Unlink(p)
          \/ Mkdir(p)
          \/ Chmod(p)
    /\ UNCHANGED <<rd, registryVars, call, ws>>

Next ==
    \/ get_app_logger /\ UNCHANGED call
    \/ \E name \in LoggerNames, tf \in BOOLEAN :
          get_logger(name, LevelNone, None, Some(tf), None) /\ UNCHANGED call
    \/ \E keys \in SUBSET LoggerNames : SetLoggersWithLogfiles(keys)
    \/ FsStep
    \/ \E s \in Sessions, name \in RequestedNames : Connect(s, name)
    \/ \E s \in Sessions : Tick(s)
    \/ \E s \in Sessions : TickOpen(s)
    \/ \E s \in Sessions : ViewerLeaves(s)

Spec == Init /\ [][Next]_vars

\* log_reader called directly on one path, for every content of the file.
ReaderPath == PathOf("app.log")

\* The text of a file that holds the records w; cut: the last one has no
\* line terminator yet.
FileText(w, cut) ==
    IF cut /\ w # <<>> THEN SubSeq(TextOf(w), 1, Len(TextOf(w)) - 1) ELSE TextOf(w)

InitReader ==
    /\ \E w \in SeqUpTo(LineSet, MaxLines), k \in Kinds, cut \in BOOLEAN :
          /\ k \in {"missing", "dir"} => w = <<>>
          /\ cut => w # <<>>
          /\ written = [p \in Paths |-> IF p = ReaderPath THEN w ELSE <<>>]
          /\ fs = [p \in Paths |->
                     IF p = ReaderPath
                     THEN [kind |-> k, text |-> FileText(w, cut)]
                     ELSE NoFile]
    /\ rd = RdIdle
    /\ default_to_console = TRUE
    /\ default_to_file = FALSE
    /\ InitRegistry
    /\ ws = [s \in Sessions |-> SessionIdle]

NextReader ==
    \/ \E n \in 0..MaxN : LogReaderEnter(ReaderPath, n)
    \/ LogReaderOpen
    \/ ReaderFsStep

SpecReader == InitReader /\ [][NextReader]_vars

\* The registry, the resolution and the name listing, under every setting of
\* the two environment defaults.
InitManager ==
    /\ fs = [p \in Paths |-> NoFile]
    /\ written = [p \in Paths |-> <<>>]
    /\ rd = RdIdle
    /\ default_to_console \in BOOLEAN
    /\ default_to_file \in BOOLEAN
    /\ InitRegistry
    /\ ws = [s \in Sessions |-> SessionIdle]

OptBool == {None, Some(TRUE), Some(FALSE)}

ManagerFsStep ==
    /\ \E p \in Paths : Mkdir(p)
    /\ UNCHANGED <<rd, registryVars, call, ws>>

NextManager ==
    \/ get_app_logger /\ UNCHANGED call
    \/ \E name \in LoggerNames, tc \in OptBool, tf \in OptBool,
          file_name \in {None, Some("db.log")} :
          get_logger(name, LevelNone, tc, tf, file_name) /\ UNCHANGED call
    \/ \E name \in LoggerNames, p \in Paths : AddHandlerOutside(name, FileHandler(p))
    \/ \E keys \in SUBSET LoggerNames : SetLoggersWithLogfiles(keys)
    \/ \E name \in RequestedNames : ResolveCall(name)
    \/ get_logger_names
    \/ ManagerFsStep

SpecManager == InitManager /\ [][NextManager]_vars

\* The manager's methods called in any order, each call recorded, under
\* every setting of the two environment defaults.
TaskNames == {"a", "b"}
ManagedNames == {"app", "task"}
AllLoggerNames == LoggerNames \cup ManagedNames
AllPaths == Paths \cup {PathOf(DefaultFileName(n)) : n \in ManagedNames}
                  \cup {PathOf(TaskFileName(t)) : t \in TaskNames}
LevelArgs == {LevelNone, LevelInt(10), LevelStr("warning"), LevelStr("verbose")}

InitLoggers ==
    /\ fs = [p \in AllPaths |-> NoFile]
    /\ written = [p \in AllPaths |-> <<>>]
    /\ rd = RdIdle
    /\ default_to_console \in BOOLEAN
    /\ default_to_file \in BOOLEAN
    /\ _loggers = {}
    /\ handlers = [n \in AllLoggerNames |-> <<>>]
    /\ levels = [n \in AllLoggerNames |-> 0]
    /\ _loggers_with_logfiles = Undefined
    /\ call = NoCall
    /\ ws = [s \in Sessions |-> SessionIdle]

\* The record of a call that was to return the logger `name`: it returned
\* exactly when the name is registered afterwards (the only exception of
\* get_logger is that of logging.FileHandler).
Recorded(op, arg, name) ==
    call' = IF name \in _loggers'
            THEN [op |-> op, logger_name |-> arg, raised |-> "none",
                  value |-> Some(name)]
            ELSE [op |-> op, logger_name |-> arg, raised |-> "OSError",
                  value |-> None]

GetLoggerCall(name, level, to_console, to_file, file_name) ==
    /\ get_logger(name, level, to_console, to_file, file_name)
    /\ Recorded("get_logger", Some(name), name)

GetAppLoggerCall ==
    /\ get_app_logger
    /\ Recorded("get_app_logger", None, "app")

\* get_task_logger(name) and get_task_logger(name, to_file=False).
GetTaskLoggerCall(name, to_file) ==
    /\ get_task_logger(name, to_file)
    /\ Recorded(IF to_file THEN "get_task_logger" ELSE "get_task_logger_no_file",
                Some(name), "task")

LoggersFsStep ==
    /\ \E p \in {PathOf("app.log"), PathOf(TaskFileName("a"))} : Mkdir(p)
    /\ UNCHANGED <<rd, registryVars, call, ws>>

NextLoggers ==
    \/ \E name \in ManagedNames, level \in LevelArgs, tc \in {None, Some(FALSE)},
          tf \in OptBool :
          GetLoggerCall(name, level, tc, tf, None)
    \/ GetAppLoggerCall
    \/ \E name \in TaskNames, to_file \in BOOLEAN : GetTaskLoggerCall(name, to_file)
    \/ \E name \in ManagedNames : AddHandlerOutside(name, ConsoleHandler)
    \/ LoggersFsStep

SpecLoggers == InitLoggers /\ [][NextLoggers]_vars

\* ------------------------------------------- sessions under fair scheduling
\* asyncio.sleep(1) returns and the handler's coroutine is resumed: a turn of
\* the loop that can be taken is taken.
\* The environment of these sessions is the logger "app" and its file.
LiveFsStep ==
    /\ \/ \E l \in SessLineSet : Emit(PathOf("app.log"), l, MaxLiveLines)
       \/ Unlink(PathOf("app.log"))
       \/ Mkdir(PathOf("app.log"))
       \/ Chmod(PathOf("app.log"))
    /\ UNCHANGED <<rd, registryVars, call, ws>>

NextLive ==
    \/ get_app_logger /\ UNCHANGED call
    \/ \E keys \in SUBSET {"app"} : SetLoggersWithLogfiles(keys)
    \/ LiveFsStep
    \/ \E s \in Sessions, name \in {None, Some("app"), Some("nonexistent")} :
          Connect(s, name)
    \/ \E s \in Sessions : Tick(s)
    \/ \E s \in Sessions : TickOpen(s)
    \/ \E s \in Sessions : ViewerLeaves(s)

SpecLive ==
    /\ Init
    /\ [][NextLive]_vars
    /\ \A s \in Sessions : WF_vars(Tick(s)) /\ WF_vars(TickOpen(s))

\* The session is in the push loop.
Active(s) == ws[s].pc \in {"sleep", "opening"}
\* The handler returned after its finally block.
Closed(s) == ws[s].pc = "done"

\* Two sessions open at the same time, on the logger "app" and its file.
PairSessions == {"s1", "s2"}

InitPair ==
    /\ fs = [p \in Paths |-> NoFile]
    /\ written = [p \in Paths |-> <<>>]
    /\ rd = RdIdle
    /\ default_to_console = TRUE
    /\ default_to_file = FALSE
    /\ InitRegistry
    /\ ws = [s \in PairSessions |-> SessionIdle]

\* The file of "app" is written to, and made unreadable or readable again.
PairFsStep ==
    /\ \/ \E l \in SessLineSet : Emit(PathOf("app.log"), l, MaxSessLines)
       \/ Chmod(PathOf("app.log"))
    /\ UNCHANGED <<rd, registryVars, call, ws>>

NextPair ==
    \/ get_app_logger /\ UNCHANGED call
    \/ \E keys \in SUBSET {"app"} : SetLoggersWithLogfiles(keys)
    \/ PairFsStep
    \/ \E s \in PairSessions : Connect(s, Some("app"))
    \/ \E s \in PairSessions : Tick(s)
    \/ \E s \in PairSessions : TickOpen(s)
    \/ \E s \in PairSessions : ViewerLeaves(s)

SpecPair == InitPair /\ [][NextPair]_vars

\* ------------------------------------------------------------ the claims
\* What the specification calls a logger "with a resolvable backing file":
\* the registry created it and it has a file sink.
HasBackingFile(name) ==
    /\ name \in _loggers
    /\ HasFileHandler(handlers[name])

\* The file the specification resolves a name to: the first file sink of
\* such a logger, absent for every other name.
ExpectedFile(logger_name) ==
    IF logger_name = None THEN None
    ELSE IF logger_name[1] \in LoggerNames /\ HasBackingFile(logger_name[1])
    THEN LET hs == handlers[logger_name[1]]
             first == CHOOSE i \in 1..Len(hs) :
                         /\ hs[i].baseFilename # None
                         /\ \A j \in 1..(i - 1) : hs[j].baseFilename = None
         IN  hs[first].baseFilename
    ELSE None

\* The session has left the Active loop only because the viewer is gone or a
\* push failed.
EndedByTransport(s) ==
    /\ ws[s].pc = "done"
    /\ ws[s].failed

\* C1: a session that asked for the unknown logger "nonexistent" while the
\* default logger "app" has no file sink is Active, or was ended by a failed
\* push; it never faults, and the only message it pushes is the fixed
\* "No logfile configured for selected logger.".
C1_UnresolvedStaysActive ==
    \A s \in Sessions :
        ( /\ ws[s].pc # "idle"
          /\ ws[s].logger_name = Some("nonexistent")
          /\ ~HasFileHandler(handlers["app"]) )
        => /\ ws[s].pc = "sleep" \/ EndedByTransport(s)
           /\ ws[s].escaped = "none"
           /\ ws[s].last \in {None, Some(NoLogfileMessage)}

\* C2: every call of _resolve_logfile_for_logger returns, without raising,
\* the first file sink of the logger the registry created for the name, and
\* None for an absent, empty or unknown name and for a logger without a file
\* sink.
C2_ResolveReturnsFirstFile ==
    [][ (call' # call /\ call'.op = "resolve")
        => /\ call'.raised = "none"
           /\ call'.value = ExpectedFile(call'.logger_name) ]_vars

\* C3: every answer of GET <prefix>/logs/logger_names is the sorted list of
\* exactly the logger names that have a resolvable backing file (the empty
\* list when there is none), never an error.
C3_NamesAreLoggersWithFiles ==
    [][ (call' # call /\ call'.op = "logger_names")
        => /\ call'.raised = "none"
           /\ call'.value = sorted({n \in LoggerNames : HasBackingFile(n)}) ]_vars

\* The lines of the file log_reader was called on, as written: every record
\* with its terminator, the last one without it if it was not terminated.
FileLines ==
    LET w == written[rd.log_file]
        whole == fs[rd.log_file].text = TextOf(w)
    IN  [i \in 1..Len(w) |-> IF i < Len(w) \/ whole THEN w[i] \o <<NL>> ELSE w[i]]

\* The severity of a line, and the entry log_reader is to give for it.
Severity(line) ==
    CASE Contains(ERROR, line) -> "Error"
      [] ~Contains(ERROR, line) /\ Contains(WARNING, line) -> "Warning"
      [] OTHER -> "Normal"
Tagged(line) ==
    CASE Severity(line) = "Error" -> SpanRed \o line \o SpanEnd \o Br
      [] Severity(line) = "Warning" -> SpanOrange \o line \o SpanEnd \o Br
      [] Severity(line) = "Normal" -> line \o Br

\* log_reader returned what it read from the file (the file was opened).
ReadFromFile ==
    /\ rd.pc = "returned"
    /\ rd.exists

\* C4: log_reader(path, n) on an existing file returns at most n entries, and
\* the file's last n lines, oldest first, when the file has at least n lines.
C4_AtMostNAndLastN ==
    ReadFromFile =>
        /\ Len(rd.value) <= rd.n
        /\ Len(FileLines) >= rd.n =>
              rd.value = [i \in 1..rd.n |->
                            Tagged(FileLines[Len(FileLines) - rd.n + i])]

\* C5: log_reader(path, N) on an existing file with fewer than N lines returns
\* one entry per line of the file, in the order of the file.
C5_ShortFileWhole ==
    (ReadFromFile /\ Len(FileLines) < rd.n) =>
        rd.value = [i \in 1..Len(FileLines) |-> Tagged(FileLines[i])]

\* C5's case: a file of at least two lines read with a larger window.
C5_Witness ==
    /\ ReadFromFile
    /\ Len(FileLines) >= 2
    /\ Len(FileLines) < rd.n
    /\ Len(rd.value) = Len(FileLines)

\* C6: when the path exists but cannot be opened and read as a regular file (a
\* directory, no read permission, removed after the existence test),
\* log_reader returns an empty list and does not raise.
C6_UnreadableGivesEmpty ==
    (rd.pc \in {"returned", "raised"} /\ rd.exists /\ fs[rd.log_file].kind # "file")
    => /\ rd.pc = "returned"
       /\ rd.value = <<>>

\* C7: when the path does not exist, log_reader returns an empty list, for
\* every n, and does not raise.
C7_MissingGivesEmpty ==
    (rd.pc # "idle" /\ ~rd.exists) =>
        /\ rd.pc = "returned"
        /\ rd.raised = "none"
        /\ rd.value = <<>>

\* C7's case: log_reader was called with a window of at least one line on a
\* path that does not exist, and has returned.
C7_Witness ==
    /\ rd.pc = "returned"
    /\ ~rd.exists
    /\ fs[rd.log_file].kind = "missing"
    /\ rd.n >= 1

\* C8: every entry log_reader returns is the line it was made from inside
\* exactly one tag: the red span if the line contains "ERROR", else the orange
\* span if it contains "WARNING", else no span; the returned entries are the
\* last lines of the file.
C8_TaggedBySeverity ==
    ReadFromFile =>
        /\ Len(rd.value) <= Len(FileLines)
        /\ \A i \in 1..Len(rd.value) :
              rd.value[i] = Tagged(FileLines[Len(FileLines) - Len(rd.value) + i])

\* C8's case: a returned window that holds a line with both tokens, tagged
\* Error, and a WARNING line, tagged Warning.
C8_Witness ==
    /\ ReadFromFile
    /\ \E i \in 1..Len(rd.value) :
          rd.value[i] = SpanRed \o LineBoth \o <<NL>> \o SpanEnd \o Br
    /\ \E i \in 1..Len(rd.value) :
          rd.value[i] = SpanOrange \o LineWarning \o <<NL>> \o SpanEnd \o Br

\* C9: once a push of a session failed, the session has left the loop and is
\* closed, and it made no further push attempt.
C9_FailedPushEndsSession ==
    \A s \in Sessions :
        ws[s].failed =>
            /\ ws[s].pc = "done"
            /\ ~ws[s].retried
            /\ ws[s].close \in {"sent", "suppressed", "skipped"}

\* C9's case: a send raised WebSocketDisconnect and the session is closed.
C9_Witness ==
    \E s \in Sessions :
        /\ ws[s].failed
        /\ ws[s].exit = "WebSocketDisconnect"
        /\ ws[s].last # None
        /\ ws[s].pc = "done"

\* C10: whichever way a session left the Active loop, the handler ended
\* without an exception: the close was skipped for a disconnected client,
\* dropped when a close frame had been sent, and else performed.
C10_CloseNeverRaises ==
    \A s \in Sessions :
        ws[s].exit # "none" =>
            /\ ws[s].pc = "done"
            /\ ws[s].escaped = "none"
            /\ ws[s].close \in {"sent", "suppressed", "skipped"}
            /\ ws[s].client_state = "DISCONNECTED" => ws[s].close = "skipped"
            /\ ws[s].close = "sent" => ws[s].client_state = "CONNECTED"

\* C10's case: close() raised RuntimeError in the finally block, after a
\* failed send had ended the connection, and the handler ended normally.
C10_Witness ==
    \E s \in Sessions :
        /\ ws[s].exit # "none"
        /\ ws[s].close = "suppressed"
        /\ ws[s].pc = "done"


\* C11: once the viewer of an Active session is gone, the session eventually
\* is Closed (the turns of the loop being taken); and a Closed session stays
\* as it is: it is closed once and never is Active again.
C11_DisconnectLeadsToClosed ==
    /\ \A s \in Sessions : (Active(s) /\ ws[s].viewer = "gone") ~> Closed(s)
    /\ [][\A s \in Sessions : Closed(s) => ws'[s] = ws[s]]_vars

\* C11's case: the viewer left an Active session, the next send failed and
\* the session is Closed.
C11_Witness ==
    \E s \in Sessions :
        /\ Closed(s)
        /\ ws[s].viewer = "gone"
        /\ ws[s].failed
        /\ ws[s].logfile # None

\* C12: a session opened without a logger name, with the empty name or with
\* the unknown name "nonexistent", while the registry holds the logger "app"
\* with a file sink, enters the loop on the file of "app": the handler does
\* not fault and the path it tails is the first file sink of "app".
C12_FallsBackToApp ==
    [][ \A s \in Sessions :
          ( /\ ws[s].pc = "idle"
            /\ ws'[s].pc # "idle"
            /\ ws'[s].logger_name \in {None, Some(""), Some("nonexistent")}
            /\ HasBackingFile("app") )
          => /\ ws'[s].pc = "sleep"
             /\ ws'[s].escaped = "none"
             /\ ws'[s].logfile = ExpectedFile(Some("app")) ]_vars

WritesTo(hs, path) == \E i \in 1..Len(hs) : hs[i].baseFilename = path

\* The logger "task" is as calls get_task_logger(name) alone leave it: not
\* configured yet, or registered with the console and a task file.
OnlyTaskCallsBefore ==
    IF "task" \in _loggers
    THEN \E t \in TaskNames :
            handlers["task"] = <<ConsoleHandler, FileHandler(PathOf(TaskFileName(t)))>>
    ELSE handlers["task"] = <<>>

\* C14: in a sequence of calls get_task_logger(name) (to_file=True), every
\* call that returns, returns a logger with a file sink on "task_<name>.log"
\* in the log directory, for the name passed in that call.
C14_TaskLoggerWritesToItsFile ==
    [][ ( /\ OnlyTaskCallsBefore
          /\ call' # call
          /\ call'.op = "get_task_logger"
          /\ call'.raised = "none" )
        => WritesTo(handlers'[call'.value[1]],
                    PathOf(TaskFileName(call'.logger_name[1]))) ]_vars

\* C15: every call of get_app_logger that returns, returns the logger "app"
\* with a console sink and a file sink on "app.log" in the log directory,
\* under every setting of the environment defaults and after every sequence
\* of earlier calls.
C15_AppLoggerHasBothSinks ==
    [][ ( /\ call' # call
          /\ call'.op = "get_app_logger"
          /\ call'.raised = "none" )
        => /\ call'.value = Some("app")
           /\ \E i \in 1..Len(handlers'["app"]) : handlers'["app"][i] = ConsoleHandler
           /\ WritesTo(handlers'["app"], PathOf("app.log")) ]_vars

\* C16: a session leaves the Active loop only through a failed push: no
\* fault of reading the file (missing, a directory, unreadable, removed
\* between the existence test and the open) ends it.
C16_FileFaultsKeepSession ==
    \A s \in Sessions : Closed(s) => ws[s].failed

\* C17: a step that changes the record of one session leaves the record of
\* every other session, the registry and the files as they were: a tick, a
\* push, a failed push and the closing of a session touch that session only.
C17_SessionsIsolated ==
    [][ /\ \A s, t \in PairSessions :
             (s # t /\ ws'[s] # ws[s]) => ws'[t] = ws[t]
        /\ ws' # ws => UNCHANGED <<registryVars, fsVars>> ]_vars

\* C17's case: one session was closed after a failed push and the other one,
\* tailing the same file, is in the loop with its viewer and has pushed.
C17_Witness ==
    \E s, t \in PairSessions :
        /\ ws[s].pc = "done" /\ ws[s].failed
        /\ ws[t].pc = "sleep" /\ ws[t].viewer = "here"
        /\ ws[t].logfile = ws[s].logfile /\ ws[t].logfile # None
        /\ ws[t].last # None /\ ws[t].last # ws[s].last

\* The message of a turn of the loop in which log_reader returns: the joined
\* window of the file as it is when it is read, nothing for a missing file.
TickMessage(s) ==
    IF exists(fs, ws[s].logfile)
    THEN join(RenderAll(fs[ws[s].logfile].text, SessionWindow))
    ELSE join(<<>>)

C19_SameFileSameWindow ==
    [][ \A s, t \in PairSessions :
          /\ ( /\ ws'[s].read # None
               /\ ws'[s].read = ws'[t].read
               /\ ws'[s].logfile = ws'[t].logfile )
             => ws'[s].last = ws'[t].last
          /\ ( /\ ws'[s].seq # ws[s].seq
               /\ ws[s].read # None
               /\ ws'[s].read = ws[s].read )
             => ws'[s].last = ws[s].last ]_vars

\* C19's case: two sessions in the loop were sent the window of the same
\* file in the same state, the file holding two lines, and one of them had
\* been sent the window of the shorter file before the other one was opened.
C19_Witness ==
    \E s, t \in PairSessions :
        /\ s # t
        /\ ws[s].pc = "sleep" /\ ws[t].pc = "sleep"
        /\ ws[s].read # None /\ ws[s].read = ws[t].read
        /\ ws[s].read[1].kind = "file"
        /\ Len(readlines(ws[s].read[1].text)) = 2
        /\ ws[s].seq = 0 /\ ws[t].seq = 1

\* C20: a call of _resolve_logfile_for_logger, for every name, leaves the
\* registry, the handlers and level of every logger, the registry attribute
\* and the files as they were, and the same call made right after it gives
\* the result it gave.
C20_ResolveReadOnly ==
    [][ (call' # call /\ call'.op = "resolve")
        => /\ UNCHANGED <<_loggers, handlers, levels, _loggers_with_logfiles,
                          fs, written>>
           /\ resolve_logfile_for_logger(_loggers_with_logfiles', handlers',
                                         call'.logger_name)
              = [raised |-> call'.raised, value |-> call'.value] ]_vars

\* C20's case: "db" was resolved, without an exception, while the registry
\* did not hold it, and there is neither a logger "db" nor its file.
C20_Witness ==
    /\ call.op = "resolve"
    /\ call.logger_name = Some("db")
    /\ call.raised = "none"
    /\ "db" \notin _loggers
    /\ handlers["db"] = <<>>
    /\ ~exists(fs, PathOf("db.log"))
====
